---- MODULE Spec2Model ----
(***************************************************************************)
(* Model of lib/weather.py (class Weather).                                *)
(*                                                                         *)
(* A Weather instance is constructed once (__init__) and then its methods  *)
(* are called in any order.  Every HTTP response is an input chosen by the *)
(* environment.  Python values are tagged records so that None, False,     *)
(* numbers, strings, tuples and dicts stay distinct.  Temperatures are     *)
(* kept in tenths of a degree so that round() is a real conversion.        *)
(***************************************************************************)
EXTENDS Integers, Sequences, FiniteSets, TLC

\* ---------------------------------------------------------------- bounds
MaxCalls == 2
MaxForecast == 2

\* ------------------------------------------------------- Python values
PyNone == [t |-> "NoneType"]
PyBool(b) == [t |-> "bool", v |-> b]
PyInt(n) == [t |-> "int", v |-> n]
PyStr(s) == [t |-> "str", v |-> s]
PyTuple(s) == [t |-> "tuple", v |-> s]
PyDict(d) == [t |-> "dict", v |-> d]

\* truth value of `x` in `if not x` for the values the snapshot can take
Truthy(x) == x.t = "dict" /\ DOMAIN x.v # {}

\* ------------------------------------------------------------ endpoints
Endpoints == {"primary", "secondary", "geocode", "weather", "alt", "forecast"}
NoRequest == [e \in Endpoints |-> 0]
Request(e) == [x \in Endpoints |-> IF x = e THEN 1 ELSE 0]
Plus(a, b) == [e \in Endpoints |-> a[e] + b[e]]

\* ---------------------------------------------- responses (environment)
\* requests.get(...) / response.json() raising a RequestException
Unreachable == [raises |-> TRUE]
Response(code, body) == [raises |-> FALSE, status_code |-> code, json |-> body]
\* what a call saw of an endpoint: its response, if the call contacted it
NotContacted == [contacted |-> FALSE]
Seen(sent, e, resp) == IF sent[e] > 0 THEN resp ELSE NotContacted

PrimaryResponses ==
    {Unreachable, Response(200, [status |-> "fail"]), Response(200, [zip |-> "94105"])}
SecondaryResponses ==
    {Unreachable, Response(200, [ip |-> "10.0.0.1"]), Response(200, [postal |-> "10001"])}
GeocodeResponses ==
    {Unreachable,
     Response(404, [cod |-> "404"]),
     Response(200, [lat |-> 377]),
     Response(200, [lat |-> 377, lon |-> 1224])}

\* a current-weather payload: feels-like in tenths of a degree, sunset as a
\* Unix timestamp
Payload(c, s) == [main |-> [feels_like |-> c], sys |-> [sunset |-> s]]
\* the second payload carries a field the others lack
Payloads ==
    {Payload(200, 1700000000),
     [main |-> [feels_like |-> 200], sys |-> [sunset |-> 1700000000], rain |-> 1],
     Payload(215, 1700005500)}
WeatherResponses ==
    {Unreachable} \cup {Response(200, p) : p \in Payloads}
    \cup {Response(401, [cod |-> PyInt(401)]), Response(500, [cod |-> PyInt(500)])}

AltResponses ==
    {Unreachable,
     Response(404, [cod |-> PyStr("404")]),
     Response(200, [cod |-> PyInt(200), main |-> [feels_like |-> 185]])}

ForecastEntry(f, hi, lo) == [main |-> [feels_like |-> f, temp_max |-> hi, temp_min |-> lo]]
ForecastEntries ==
    {ForecastEntry(150, 220, 180), ForecastEntry(230, 250, 170)}
RECURSIVE ForecastLists(_)
ForecastLists(n) ==
    IF n = 0 THEN {<<>>}
    ELSE LET shorter == ForecastLists(n - 1)
         IN shorter \cup {Append(l, e) : l \in {s \in shorter : Len(s) = n - 1}, e \in ForecastEntries}
ForecastResponses ==
    {Unreachable, Response(500, [cod |-> PyInt(500)])}
    \cup {Response(200, [list |-> l]) : l \in ForecastLists(MaxForecast)}

\* offsets of the local time zone from UTC, in seconds
TZOffsets == {-28800, 19800}
AltZips == {<<"1", "2", "3", "4", "5">>, <<"5", "1", "2", "8", "5", "8", "1">>}

VARIABLES
    hide_other_weather, \* display_settings.json: weather_settings.hide_other_weather
    ow_alt_weather_zip, \* keys.json: ow_alt_weather_zip
    tz,                 \* offset of the process's local time zone
    phase,              \* "new", "ready" (constructed), "failed" (__init__ raised)
    zipcode,            \* self.zipcode
    lat_long,           \* self.lat_long
    local_weather_json, \* self.local_weather_json
    calls,              \* number of method calls since construction
    call                \* the last call: its inputs, requests and outcome

vars == <<hide_other_weather, ow_alt_weather_zip, tz, phase, zipcode, lat_long,
          local_weather_json, calls, call>>

config == <<hide_other_weather, ow_alt_weather_zip, tz>>

Init ==
    /\ hide_other_weather \in BOOLEAN
    /\ ow_alt_weather_zip \in AltZips
    /\ tz \in TZOffsets
    /\ phase = "new"
    /\ zipcode = PyNone
    /\ lat_long = PyNone
    /\ local_weather_json = PyNone
    /\ calls = 0
    /\ call = [op |-> "none"]

\* ------------------------------------------------------------ helpers
Digits == {"0", "1", "2", "3", "4", "5", "6", "7", "8", "9"}
\* str.isdigit()
isdigit(s) == Len(s) > 0 /\ \A i \in 1..Len(s) : s[i] \in Digits

\* round(x) of Python 3 for x given in tenths: nearest integer, ties to even
round(x) ==
    LET q == x \div 10
        r == x % 10
    IN IF r < 5 THEN q
       ELSE IF r > 5 THEN q + 1
       ELSE IF q % 2 = 0 THEN q ELSE q + 1

\* localtime(t): the fields of struct_time that are read
localtime(t, offset) ==
    [tm_hour |-> ((t + offset) \div 3600) % 24, tm_min |-> ((t + offset) \div 60) % 60]
\* strftime('%H', tm): hour as two decimal digits, zero padded
strftime_H(tm) == <<tm.tm_hour \div 10, tm.tm_hour % 10>>
\* strftime('%-M', tm): minute as decimal digits without padding
strftime_M(tm) ==
    IF tm.tm_min < 10 THEN <<tm.tm_min>> ELSE <<tm.tm_min \div 10, tm.tm_min % 10>>
\* int(s) for a string of decimal digits
RECURSIVE int(_)
int(ds) == IF ds = <<>> THEN 0 ELSE 10 * int(SubSeq(ds, 1, Len(ds) - 1)) + ds[Len(ds)]

\* seconds added to the provider's sunset timestamp
SunsetOffset == 1440

\* the attributes some method of the class assigns on self
AssignedAttributes ==
    {"weather_settings", "hide_other_weather", "metric_units", "ow_key",
     "ow_alt_weather_zip", "url_units", "ow_current_url", "ow_forecast_url",
     "ow_geocoding_url", "zipcode", "lat_long", "local_weather_json"}

\* ------------------------------------------------------------ methods
\* Each method is an operator from the instance's fields and the responses
\* the endpoints give to: exc (the exception raised, "" when it returns),
\* ret (the value returned), sent (requests issued) and, where the method
\* assigns it, the new snapshot.

\* variant: the secondary provider is asked first
get_zip_from_ip_secondary_first(r1, r2) ==
    IF ~r2.raises /\ "postal" \in DOMAIN r2.json
    THEN [ret |-> PyStr(r2.json.postal), sent |-> Request("secondary")]
    ELSE IF ~r1.raises /\ "zip" \in DOMAIN r1.json
         THEN [ret |-> PyStr(r1.json.zip),
               sent |-> Plus(Request("primary"), Request("secondary"))]
         ELSE [ret |-> PyNone,
               sent |-> Plus(Request("primary"), Request("secondary"))]

get_zip_from_ip(r1, r2) ==
    IF ~r1.raises /\ "zip" \in DOMAIN r1.json
    THEN [ret |-> PyStr(r1.json.zip), sent |-> Request("primary")]
    ELSE IF ~r2.raises /\ "postal" \in DOMAIN r2.json
         THEN [ret |-> PyStr(r2.json.postal),
               sent |-> Plus(Request("primary"), Request("secondary"))]
         ELSE [ret |-> PyNone,
               sent |-> Plus(Request("primary"), Request("secondary"))]

\* variant: no early return for a postal code of None
get_lat_long_unguarded(self_zipcode, self_alt_zip, current_zip, g) ==
    IF g.raises
    THEN [ret |-> PyTuple(<<PyNone, PyNone>>), sent |-> Request("geocode")]
    ELSE IF "lat" \in DOMAIN g.json /\ "lon" \in DOMAIN g.json
         THEN [ret |-> PyTuple(<<PyInt(g.json.lat), PyInt(g.json.lon)>>),
               sent |-> Request("geocode")]
         ELSE [ret |-> PyNone, sent |-> Request("geocode")]

get_lat_long(self_zipcode, self_alt_zip, current_zip, g) ==
    LET local_zip == IF current_zip THEN self_zipcode ELSE PyStr(self_alt_zip)
    IN IF local_zip = PyNone
       THEN [ret |-> PyTuple(<<PyNone, PyNone>>), sent |-> NoRequest]
       ELSE IF g.raises
            THEN [ret |-> PyTuple(<<PyNone, PyNone>>), sent |-> Request("geocode")]
            ELSE IF "lat" \in DOMAIN g.json /\ "lon" \in DOMAIN g.json
                 THEN [ret |-> PyTuple(<<PyInt(g.json.lat), PyInt(g.json.lon)>>),
                       sent |-> Request("geocode")]
                 \* control falls off the end of the function
                 ELSE [ret |-> PyNone, sent |-> Request("geocode")]

\* dict.update: the keys of both, the values of `new` where it has the key
Merged(old, new) ==
    [k \in DOMAIN old \cup DOMAIN new |-> IF k \in DOMAIN new THEN new[k] ELSE old[k]]

\* variant: a successful fetch updates the cached dict instead of replacing it
set_local_weather_json_merging(self_lat_long, self_json, w) ==
    IF self_lat_long.t # "tuple"
    THEN [exc |-> "TypeError", ret |-> PyNone, json |-> self_json, sent |-> NoRequest]
    ELSE IF w.raises
         THEN [exc |-> "RequestException", ret |-> PyNone, json |-> self_json,
               sent |-> Request("weather")]
         ELSE IF w.status_code = 200
              THEN [exc |-> "", ret |-> PyBool(TRUE),
                    json |-> IF self_json.t = "dict"
                             THEN PyDict(Merged(self_json.v, w.json))
                             ELSE PyDict(w.json),
                    sent |-> Request("weather")]
              ELSE [exc |-> "", ret |-> PyBool(FALSE), json |-> self_json,
                    sent |-> Request("weather")]

set_local_weather_json(self_lat_long, self_json, w) ==
    IF self_lat_long.t # "tuple"
    THEN \* self.lat_long[0] on None
         [exc |-> "TypeError", ret |-> PyNone, json |-> self_json, sent |-> NoRequest]
    ELSE IF w.raises
         THEN [exc |-> "RequestException", ret |-> PyNone, json |-> self_json,
               sent |-> Request("weather")]
         ELSE IF w.status_code = 200
              THEN [exc |-> "", ret |-> PyBool(TRUE), json |-> PyDict(w.json),
                    sent |-> Request("weather")]
              ELSE [exc |-> "", ret |-> PyBool(FALSE), json |-> self_json,
                    sent |-> Request("weather")]

get_local_weather_json(self_json) ==
    IF Truthy(self_json) THEN self_json ELSE PyNone

\* variant: the raw sunset timestamp is converted
sunset_hour_minute_raw(json, offset) ==
    LET sunset_unix == json.v.sys.sunset
        sunset_hour == int(strftime_H(localtime(sunset_unix, offset)))
        sunset_minute == int(strftime_M(localtime(sunset_unix, offset)))
    IN PyTuple(<<PyInt(sunset_hour), PyInt(sunset_minute)>>)

\* lines 116-120: the (hour, minute) derived from a snapshot
sunset_hour_minute(json, offset) ==
    LET sunset_unix == json.v.sys.sunset + SunsetOffset
        sunset_hour == int(strftime_H(localtime(sunset_unix, offset)))
        sunset_minute == int(strftime_M(localtime(sunset_unix, offset)))
    IN PyTuple(<<PyInt(sunset_hour), PyInt(sunset_minute)>>)

get_sunset_info(self_lat_long, self_json, offset, w) ==
    LET f == IF ~Truthy(self_json)
             THEN set_local_weather_json(self_lat_long, self_json, w)
             ELSE [exc |-> "", ret |-> PyBool(TRUE), json |-> self_json, sent |-> NoRequest]
    IN IF f.exc # ""
       THEN f
       ELSE IF ~f.ret.v
            THEN [f EXCEPT !.ret = PyTuple(<<PyNone, PyNone>>)]
            ELSE [f EXCEPT !.ret = sunset_hour_minute(f.json, offset)]

\* variant: the other location is fetched whatever hide_other_weather says
other_temp_of_always_fetched(hide, alt) ==
    IF alt.raises
    THEN [exc |-> "RequestException", other_temp |-> PyNone, sent |-> Request("alt")]
    ELSE IF alt.json.cod # PyStr("404")
         THEN [exc |-> "", other_temp |-> PyInt(round(alt.json.main.feels_like)),
               sent |-> Request("alt")]
         ELSE [exc |-> "", other_temp |-> PyStr("NA"), sent |-> Request("alt")]

\* lines 147-157: the other location's temperature
other_temp_of(hide, alt) ==
    IF hide
    THEN [exc |-> "", other_temp |-> PyNone, sent |-> NoRequest]
    ELSE IF "ow_other_cityid" \notin AssignedAttributes
         THEN \* building the URL reads an attribute that was never assigned
              [exc |-> "AttributeError", other_temp |-> PyNone, sent |-> NoRequest]
         ELSE IF alt.raises
              THEN [exc |-> "RequestException", other_temp |-> PyNone,
                    sent |-> Request("alt")]
              ELSE IF alt.json.cod # PyStr("404")
                   THEN [exc |-> "", other_temp |-> PyInt(round(alt.json.main.feels_like)),
                         sent |-> Request("alt")]
                   ELSE [exc |-> "", other_temp |-> PyStr("NA"), sent |-> Request("alt")]

min2(a, b) == IF a <= b THEN a ELSE b
max2(a, b) == IF a >= b THEN a ELSE b

\* variant: the minimum folds in temp_min and the maximum temp_max
RECURSIVE forecast_min_max_same_field(_, _)
forecast_min_max_same_field(mm, list) ==
    IF list = <<>> THEN mm
    ELSE LET l == Head(list)
             temp_min == min2(min2(round(l.main.feels_like), round(l.main.temp_min)), mm[1])
             temp_max == max2(max2(round(l.main.feels_like), round(l.main.temp_max)), mm[2])
         IN forecast_min_max_same_field(<<temp_min, temp_max>>, Tail(list))

\* lines 163-165: the loop over forecast_json['list']; mm is <<temp_min, temp_max>>
RECURSIVE forecast_min_max(_, _)
forecast_min_max(mm, list) ==
    IF list = <<>> THEN mm
    ELSE LET l == Head(list)
             temp_min == min2(min2(round(l.main.feels_like), round(l.main.temp_max)), mm[1])
             temp_max == max2(max2(round(l.main.feels_like), round(l.main.temp_min)), mm[2])
         IN forecast_min_max(<<temp_min, temp_max>>, Tail(list))

\* lines 159-166: the forecast request and the value returned
forecast_and_return(temp, other_temp, fc) ==
    IF fc.raises
    THEN [exc |-> "RequestException", ret |-> PyNone, sent |-> Request("forecast")]
    ELSE LET mm == IF fc.status_code = 200
                   THEN forecast_min_max(<<temp, temp>>, fc.json.list)
                   ELSE <<temp, temp>>
         IN [exc |-> "",
             ret |-> PyTuple(<<PyInt(temp), PyInt(mm[2]), PyInt(mm[1]), other_temp>>),
             sent |-> Request("forecast")]

get_current_temperature_info(self_zipcode, self_lat_long, self_json, hide, w, alt, fc) ==
    IF self_zipcode = PyNone
    THEN [exc |-> "", json |-> self_json, sent |-> NoRequest,
          ret |-> PyTuple(<<PyBool(FALSE), PyBool(FALSE), PyBool(FALSE), PyBool(FALSE)>>)]
    ELSE
    LET f == set_local_weather_json(self_lat_long, self_json, w)
    IN IF f.exc # ""
       THEN f
       ELSE IF ~f.ret.v /\ ~Truthy(f.json)
       THEN [f EXCEPT !.ret = PyTuple(<<PyNone, PyNone, PyNone, PyNone>>)]
       ELSE
       LET temp == round(f.json.v.main.feels_like)
           o == other_temp_of(hide, alt)
       IN IF o.exc # ""
          THEN [exc |-> o.exc, ret |-> PyNone, json |-> f.json, sent |-> Plus(f.sent, o.sent)]
          ELSE LET r == forecast_and_return(temp, o.other_temp, fc)
               IN [exc |-> r.exc, ret |-> r.ret, json |-> f.json,
                   sent |-> Plus(f.sent, Plus(o.sent, r.sent))]

\* ------------------------------------------------------------ actions
\* Weather(): load_display_settings and load_credentials read the two
\* configuration files (the values chosen in Init), then lines 18-27.
Construct ==
    /\ phase = "new"
    /\ \E r1 \in PrimaryResponses, r2 \in SecondaryResponses, g \in GeocodeResponses :
         LET z == get_zip_from_ip(r1, r2)
             ll == get_lat_long(z.ret, ow_alt_weather_zip, TRUE, g)
             bad == /\ ~hide_other_weather
                    /\ Len(ow_alt_weather_zip) = 5 /\ isdigit(ow_alt_weather_zip)
         IN /\ zipcode' = z.ret
            /\ lat_long' = ll.ret
            /\ local_weather_json' = PyNone
            /\ phase' = IF bad THEN "failed" ELSE "ready"
            /\ call' = [op |-> "__init__", exc |-> IF bad THEN "ValueError" ELSE "",
                        primary |-> r1, secondary |-> Seen(z.sent, "secondary", r2),
                        geocode |-> Seen(ll.sent, "geocode", g),
                        sent |-> Plus(z.sent, ll.sent)]
    /\ UNCHANGED <<config, calls>>

\* a method call on the constructed instance
Called ==
    /\ phase = "ready"
    /\ calls < MaxCalls
    /\ calls' = calls + 1
    /\ UNCHANGED <<config, phase, zipcode, lat_long>>

GetLatLong ==
    \E current_zip \in BOOLEAN, g \in GeocodeResponses :
        LET r == get_lat_long(zipcode, ow_alt_weather_zip, current_zip, g)
        IN /\ Called
           /\ call' = [op |-> "get_lat_long", exc |-> "", current_zip |-> current_zip,
                       geocode |-> Seen(r.sent, "geocode", g), ret |-> r.ret,
                       sent |-> r.sent]
           /\ UNCHANGED local_weather_json

SetLocalWeatherJson ==
    \E w \in WeatherResponses :
        LET r == set_local_weather_json(lat_long, local_weather_json, w)
        IN /\ Called
           /\ local_weather_json' = r.json
           /\ call' = [op |-> "set_local_weather_json", exc |-> r.exc, ret |-> r.ret,
                       pre |-> local_weather_json, weather |-> Seen(r.sent, "weather", w),
                       sent |-> r.sent]

GetLocalWeatherJson ==
    /\ Called
    /\ call' = [op |-> "get_local_weather_json", exc |-> "",
                ret |-> get_local_weather_json(local_weather_json), sent |-> NoRequest]
    /\ UNCHANGED local_weather_json

GetSunsetInfo ==
    \E w \in WeatherResponses :
        LET r == get_sunset_info(lat_long, local_weather_json, tz, w)
        IN /\ Called
           /\ local_weather_json' = r.json
           /\ call' = [op |-> "get_sunset_info", exc |-> r.exc, ret |-> r.ret,
                       pre |-> local_weather_json, weather |-> Seen(r.sent, "weather", w),
                       sent |-> r.sent]

GetCurrentTemperatureInfo ==
    \E w \in WeatherResponses, alt \in AltResponses, fc \in ForecastResponses :
        LET r == get_current_temperature_info(zipcode, lat_long, local_weather_json,
                                              hide_other_weather, w, alt, fc)
        IN /\ Called
           /\ local_weather_json' = r.json
           /\ call' = [op |-> "get_current_temperature_info", exc |-> r.exc, ret |-> r.ret,
                       pre |-> local_weather_json,
                       weather |-> Seen(r.sent, "weather", w),
                       other |-> Seen(r.sent, "alt", alt),
                       forecast |-> Seen(r.sent, "forecast", fc), sent |-> r.sent]

Next ==
    \/ Construct
    \/ GetLatLong
    \/ SetLocalWeatherJson
    \/ GetLocalWeatherJson
    \/ GetSunsetInfo
    \/ GetCurrentTemperatureInfo

Spec == Init /\ [][Next]_vars

TypeOK ==
    /\ phase \in {"new", "ready", "failed"}
    /\ calls \in 0..MaxCalls
    /\ zipcode.t \in {"NoneType", "str"}
    /\ lat_long.t \in {"NoneType", "tuple"}
    /\ local_weather_json.t \in {"NoneType", "dict"}

\* ------------------------------------------------------------ properties
NoneNone == PyTuple(<<PyNone, PyNone>>)
FourNone == PyTuple(<<PyNone, PyNone, PyNone, PyNone>>)
FourFalse == PyTuple(<<PyBool(FALSE), PyBool(FALSE), PyBool(FALSE), PyBool(FALSE)>>)
\* the call contacted endpoint e and got an HTTP response
Answered(e, field) == call.sent[e] = 1 /\ ~call[field].raises
HasField(resp, k) == ~resp.raises /\ k \in DOMAIN resp.json
SetMin(S) == CHOOSE x \in S : \A y \in S : x <= y
SetMax(S) == CHOOSE x \in S : \A y \in S : x >= y

\* C1: with zipcode None, a call of get_sunset_info or of
\* get_current_temperature_info issues no current-weather and no forecast
\* request, so that no sequence of such calls issues one.
C1_NoFetchWithoutPostalCode ==
    (/\ phase = "ready" /\ zipcode = PyNone
     /\ call.op \in {"get_sunset_info", "get_current_temperature_info"})
    => call.sent["weather"] = 0 /\ call.sent["forecast"] = 0

\* C2: when the current-weather response has status 200 the snapshot is
\* exactly the new payload and set_local_weather_json returns True; for any
\* other status the snapshot is what it was before the call and it returns
\* False.  The snapshot part also holds where get_sunset_info and
\* get_current_temperature_info make the fetch.
C2_FetchReplacesOrKeeps ==
    (/\ call.op \in {"set_local_weather_json", "get_sunset_info",
                      "get_current_temperature_info"}
     /\ Answered("weather", "weather"))
    => IF call.weather.status_code = 200
       THEN /\ local_weather_json = PyDict(call.weather.json)
            /\ call.op = "set_local_weather_json"
               => call.exc = "" /\ call.ret = PyBool(TRUE)
       ELSE /\ local_weather_json = call.pre
            /\ call.op = "set_local_weather_json"
               => call.exc = "" /\ call.ret = PyBool(FALSE)

\* a 200 response arrived while a snapshot with an extra field was cached
C2_Witness ==
    /\ call.op = "set_local_weather_json"
    /\ Answered("weather", "weather") /\ call.weather.status_code = 200
    /\ call.pre.t = "dict" /\ "rain" \in DOMAIN call.pre.v
    /\ "rain" \notin DOMAIN call.weather.json
    /\ call.ret = PyBool(TRUE)

\* C3: get_lat_long returns (None, None) when the geocoding request fails or
\* the response lacks lat or lon, and (lat, lon) otherwise; the stored
\* lat_long is a pair with both components present or both None.
C3_CoordinatesArePair ==
    /\ phase = "ready"
       => /\ lat_long.t = "tuple"
          /\ (lat_long.v[1] = PyNone) <=> (lat_long.v[2] = PyNone)
    /\ (/\ phase = "ready" /\ call.op \in {"__init__", "get_lat_long"}
        /\ call.sent["geocode"] = 1)
       => LET ret == IF call.op = "__init__" THEN lat_long ELSE call.ret
              g == call.geocode
          IN IF HasField(g, "lat") /\ HasField(g, "lon")
             THEN ret = PyTuple(<<PyInt(g.json.lat), PyInt(g.json.lon)>>)
             ELSE ret = NoneNone

\* C4: with hide_other_weather false, a call of get_current_temperature_info
\* that has a snapshot asks the alternate location and returns other_temp
\* "NA" when the answer's code is "404" and the rounded feels-like otherwise.
C4_OtherTempNotFound ==
    (/\ call.op = "get_current_temperature_info" /\ ~hide_other_weather
     /\ Answered("weather", "weather") /\ Truthy(local_weather_json))
    => /\ call.sent["alt"] = 1
       /\ (~call.other.raises /\ call.exc = "")
          => call.ret.v[4] = IF call.other.json.cod = PyStr("404")
                             THEN PyStr("NA")
                             ELSE PyInt(round(call.other.json.main.feels_like))

\* C5: if the primary provider answers with a zip field, zipcode is that
\* value and the secondary provider is not contacted; otherwise the
\* secondary is contacted and zipcode is its postal field when it has one.
C5_FirstSuccessWins ==
    call.op = "__init__"
    => /\ call.sent["primary"] = 1
       /\ IF HasField(call.primary, "zip")
          THEN zipcode = PyStr(call.primary.json.zip) /\ call.sent["secondary"] = 0
          ELSE /\ call.sent["secondary"] = 1
               /\ HasField(call.secondary, "postal")
                  => zipcode = PyStr(call.secondary.json.postal)

\* the primary provider was unreachable and the secondary one answered
C5_Witness ==
    /\ call.op = "__init__" /\ call.primary.raises
    /\ call.sent["secondary"] = 1 /\ HasField(call.secondary, "postal")
    /\ zipcode = PyStr("10001")

\* C6: when both providers fail, zipcode is None, construction goes on to
\* assign lat_long, which is (None, None), and no geocoding request is sent.
C6_BothProvidersFail ==
    (/\ call.op = "__init__"
     /\ ~HasField(call.primary, "zip")
     /\ call.sent["secondary"] = 1 => ~HasField(call.secondary, "postal"))
    => /\ zipcode = PyNone
       /\ call.exc # "RequestException"
       /\ lat_long = NoneNone
       /\ call.sent["geocode"] = 0

\* both providers failed, one by a request error and one by a missing field
C6_Witness ==
    /\ call.op = "__init__" /\ phase = "ready"
    /\ call.primary.raises
    /\ call.sent["secondary"] = 1 /\ ~call.secondary.raises
    /\ "postal" \notin DOMAIN call.secondary.json
    /\ zipcode = PyNone /\ lat_long = NoneNone

\* the temperatures of a forecast list that take part in the minimum (with
\* "temp_max") or in the maximum (with "temp_min")
Folded(list, field) ==
    {list[i].main.feels_like : i \in 1..Len(list)}
    \cup {list[i].main[field] : i \in 1..Len(list)}
WholeDegrees(S) == \A x \in S : x % 10 = 0

\* C7: a call of get_current_temperature_info that gets to the forecast and
\* returns, with current feels-like c and forecast list L (whole degrees),
\* returns temp = c, temp_min = the least of c and every entry's feels_like
\* and temp_max, temp_max = the greatest of c and every entry's feels_like
\* and temp_min; a non-200 forecast counts as the empty list, and then
\* temp_min = temp_max = c.
C7_TemperatureStatistics ==
    (/\ call.op = "get_current_temperature_info" /\ call.exc = ""
     /\ call.sent["forecast"] = 1)
    => LET c == local_weather_json.v.main.feels_like
           L == IF call.forecast.status_code = 200
                THEN call.forecast.json.list ELSE <<>>
           lows == {c} \cup Folded(L, "temp_max")
           highs == {c} \cup Folded(L, "temp_min")
       IN WholeDegrees(lows \cup highs)
          => /\ call.ret.v[1] = PyInt(c \div 10)
             /\ call.ret.v[3] = PyInt(SetMin(lows) \div 10)
             /\ call.ret.v[2] = PyInt(SetMax(highs) \div 10)
             /\ L = <<>> => call.ret.v[3] = call.ret.v[1] /\ call.ret.v[2] = call.ret.v[1]

\* c = 20 and L = [{feels_like: 15, temp_max: 22, temp_min: 18}] gave
\* temp_min = 15 and temp_max = 20
C7_Witness ==
    /\ call.op = "get_current_temperature_info" /\ call.exc = ""
    /\ call.sent["forecast"] = 1 /\ call.forecast.status_code = 200
    /\ call.forecast.json.list = <<ForecastEntry(150, 220, 180)>>
    /\ local_weather_json.v.main.feels_like = 200
    /\ call.ret = PyTuple(<<PyInt(20), PyInt(20), PyInt(15), PyNone>>)

\* C8: with hide_other_weather true no call of get_current_temperature_info
\* asks the alternate location, and a call that returns temperatures returns
\* other_temp None.
C8_OtherWeatherHidden ==
    (call.op = "get_current_temperature_info" /\ hide_other_weather)
    => /\ call.sent["alt"] = 0
       /\ (call.exc = "" /\ call.ret.v[1].t = "int") => call.ret.v[4] = PyNone

\* temperatures were returned with the other location hidden
C8_Witness ==
    /\ call.op = "get_current_temperature_info" /\ hide_other_weather
    /\ call.exc = "" /\ call.ret.v[1].t = "int" /\ call.ret.v[4] = PyNone

\* (hour, minute) of a Unix time in the local zone, by seconds of the day
HourMinute(t) ==
    LET sod == (t + tz) % 86400
    IN PyTuple(<<PyInt(sod \div 3600), PyInt((sod % 3600) \div 60)>>)

C10_FreshFetchFirst ==
    call.op = "get_current_temperature_info"
    => IF zipcode = PyNone
       THEN call.exc = "" /\ call.ret = FourFalse /\ call.sent = NoRequest
       ELSE /\ call.sent["weather"] = 1
            /\ call.exc = ""
               => /\ (call.ret = FourNone)
                     <=> (call.weather.status_code # 200 /\ ~Truthy(call.pre))
                  /\ call.ret = FourNone
                     => call.sent["alt"] = 0 /\ call.sent["forecast"] = 0
                  /\ (call.weather.status_code # 200 /\ Truthy(call.pre))
                     => /\ local_weather_json = call.pre
                        /\ call.ret.v[1] = PyInt(round(call.pre.v.main.feels_like))
====
